---- MODULE Spec2Model ----
(***************************************************************************)
(* Model of disks.hpp: the disk_state row of 2n coloured disks, its        *)
(* accessors and its adjacent swap, and the two sorting algorithms         *)
(* sort_alternate and sort_lawnmower, stepped one examined pair at a time. *)
(* A row is a sequence; the code's index i is position i + 1 here.         *)
(* The caller owns one row (before), may swap and read it, compare it with *)
(* another row, and hand it by const reference to either algorithm, which  *)
(* works on its private copy (after) and returns a sorted_disks value.     *)
(* assert() is modelled as compiled in: a failed assertion aborts the      *)
(* process, which is the terminal state pc = "aborted".                    *)
(***************************************************************************)
EXTENDS Integers, Sequences, FiniteSets, TLC

\* Largest light_count the caller constructs a row with.
MaxN == 4
\* Largest light_count of the right-hand rows the caller compares with.
MaxRhs == 2
\* How far past total_count() the caller's indices reach.
ExtraIdx == 1

DISK_LIGHT == "L"
DISK_DARK == "D"

VARIABLES
    before,     \* the caller's disk_state (its _colors)
    pc,         \* "idle", a position inside a sort, or "aborted"
    after,      \* the running sort's private copy
    numOfSwap,  \* the running sort's swap counter
    n,          \* the running sort's n = total_count() / 2
    i,          \* outer loop counter of the running sort
    j,          \* inner loop index of the running sort
    hasSwap,    \* sort_lawnmower's flag for the current double-pass
    altRes,     \* the sorted_disks the caller got from sort_alternate(before)
    lawnRes,    \* the sorted_disks the caller got from sort_lawnmower(before)
    ret,        \* the caller's last direct call on the row and what it returned
    err,        \* the failed assertion, if any, and the function that ran it
    origin,     \* where the caller's row comes from
    passes,     \* completed double-passes of the last sort_lawnmower call
    quiet,      \* whether the last completed double-pass made no swap
    built       \* the light_count the caller's row was constructed with

vars == <<before, pc, after, numOfSwap, n, i, j, hasSwap, altRes, lawnRes,
          ret, err, origin, passes, quiet, built>>

locals == <<after, numOfSwap, n, i, j, hasSwap>>

----------------------------------------------------------------------------
\* disk_state

\* The constructor: 2 * light_count light disks, then every odd index dark.
disk_state(light_count) ==
    [k \in 1..(2 * light_count) |->
        IF (k - 1) % 2 = 1 THEN DISK_DARK ELSE DISK_LIGHT]

total_count(colors) == Len(colors)

light_count(colors) == total_count(colors) \div 2

dark_count(colors) == light_count(colors)

\* size_t index: a value below zero would have wrapped to a huge one.
is_index(colors, idx) == idx >= 0 /\ idx < total_count(colors)

\* get: ok is FALSE when the assertion fails.
get(colors, index) ==
    IF is_index(colors, index)
    THEN [ok |-> TRUE, val |-> colors[index + 1]]
    ELSE [ok |-> FALSE, val |-> "-"]

\* Variant of swap: overwrites the right slot instead of exchanging.
swap_copy(colors, left_index) ==
    IF ~is_index(colors, left_index) \/ ~is_index(colors, left_index + 1)
    THEN [ok |-> FALSE, colors |-> colors]
    ELSE [ok |-> TRUE,
          colors |-> [colors EXCEPT ![left_index + 2] = colors[left_index + 1]]]

\* Variant of swap: a missing right neighbour is ignored instead of asserted.
swap_lenient(colors, left_index) ==
    IF ~is_index(colors, left_index) THEN [ok |-> FALSE, colors |-> colors]
    ELSE IF ~is_index(colors, left_index + 1) THEN [ok |-> TRUE, colors |-> colors]
    ELSE [ok |-> TRUE,
          colors |-> [colors EXCEPT ![left_index + 1] = colors[left_index + 2],
                                    ![left_index + 2] = colors[left_index + 1]]]

\* swap: ok is FALSE when either assertion fails; both precede std::swap.
swap(colors, left_index) ==
    IF ~is_index(colors, left_index) THEN [ok |-> FALSE, colors |-> colors]
    ELSE LET right_index == left_index + 1 IN
         IF ~is_index(colors, right_index)
         THEN [ok |-> FALSE, colors |-> colors]
         ELSE [ok |-> TRUE,
               colors |-> [colors EXCEPT ![left_index + 1] = colors[right_index + 1],
                                         ![right_index + 1] = colors[left_index + 1]]]

Min(a, b) == IF a < b THEN a ELSE b

\* operator==: std::equal(begin, end, rhs.begin) walks this row's length
\* only. The values it can return: FALSE at a mismatch inside both rows;
\* TRUE when this row is exhausted first; anything when rhs is shorter and
\* the walk runs past its end.
operator_eq(lhs, rhs) ==
    IF \E k \in 1..Min(Len(lhs), Len(rhs)) : lhs[k] # rhs[k] THEN {FALSE}
    ELSE IF Len(lhs) <= Len(rhs) THEN {TRUE}
    ELSE BOOLEAN

is_initialized(colors) ==
    \A idx \in 0..(total_count(colors) - 1) :
        IF idx % 2 = 0 THEN colors[idx + 1] # DISK_DARK
                       ELSE colors[idx + 1] # DISK_LIGHT

is_sorted(colors) ==
    /\ \A idx \in 0..(dark_count(colors) - 1) : colors[idx + 1] # DISK_DARK
    /\ \A idx \in dark_count(colors)..(dark_count(colors) * 2 - 1) :
           colors[idx + 1] # DISK_LIGHT

\* sorted_disks
sorted_disks(colors, swap_count) ==
    [done |-> TRUE, after |-> colors, swap_count |-> swap_count]

NoResult == [done |-> FALSE, after |-> <<>>, swap_count |-> 0]

NoRet == [op |-> "none", index |-> 0, rhs |-> <<>>, color |-> "-", result |-> FALSE]

NoErr == [kind |-> "none", func |-> "none"]

----------------------------------------------------------------------------
\* Variant of examine: swaps whenever the two disks differ in colour.
examine_differ(colors, first, firstColor, second, secondColor, left) ==
    LET g1 == get(colors, first)
        g2 == get(colors, second) IN
    IF ~g1.ok \/ ~g2.ok THEN [ok |-> FALSE, colors |-> colors, swapped |-> FALSE]
    ELSE IF g1.val = g2.val THEN [ok |-> TRUE, colors |-> colors, swapped |-> FALSE]
    ELSE LET s == swap(colors, left) IN
         [ok |-> s.ok, colors |-> s.colors, swapped |-> s.ok]

\* One test of the sorts' inner loops:
\*   if (after.get(first) == firstColor && after.get(second) == secondColor)
\*       after.swap(left);
\* The second get runs only when the first comparison holds.
examine(colors, first, firstColor, second, secondColor, left) ==
    LET g1 == get(colors, first) IN
    IF ~g1.ok THEN [ok |-> FALSE, colors |-> colors, swapped |-> FALSE]
    ELSE IF g1.val # firstColor THEN [ok |-> TRUE, colors |-> colors, swapped |-> FALSE]
    ELSE LET g2 == get(colors, second) IN
         IF ~g2.ok THEN [ok |-> FALSE, colors |-> colors, swapped |-> FALSE]
         ELSE IF g2.val # secondColor
              THEN [ok |-> TRUE, colors |-> colors, swapped |-> FALSE]
              ELSE LET s == swap(colors, left) IN
                   [ok |-> s.ok, colors |-> s.colors, swapped |-> s.ok]

\* Variant of alt_passes: two passes short.
alt_passes_short(nn) == nn - 1

\* sort_alternate: the outer loop runs while i < (int)n + 1.
alt_passes(nn) == nn + 1

\* Variant of alt_start: every pass starts at index 0.
alt_start_even(ii) == 0

\* sort_alternate: first index and bound of the inner loop of pass ii.
alt_start(ii) == IF ii % 2 = 0 THEN 0 ELSE 1

alt_bound(nn, ii) == IF ii % 2 = 0 THEN nn * 2 ELSE nn * 2 - 2

\* Variant of lawn_passes: one double-pass short.
lawn_passes_short(nn) == (nn - 1) \div 2

\* sort_lawnmower: std::ceil((int)n / 2); the division is an int division,
\* so std::ceil receives an already truncated value.
lawn_passes(nn) == nn \div 2

\* Variant of lawn_fwd_bound: the forward sweep runs one index too far.
lawn_fwd_bound_long(nn) == 2 * nn

\* Variant of lawn_bwd_start: the backward sweep starts in the middle.
lawn_bwd_start_mid(nn) == nn - 1

\* sort_lawnmower: bound of the forward sweep, start of the backward sweep.
lawn_fwd_bound(nn) == 2 * nn - 1

lawn_bwd_start(nn) == 2 * nn - 1

----------------------------------------------------------------------------
Idle == [after |-> <<>>, numOfSwap |-> 0, n |-> 0, i |-> 0, j |-> 0, hasSwap |-> FALSE]

ResetLocals ==
    /\ after' = Idle.after
    /\ numOfSwap' = 0
    /\ n' = 0
    /\ i' = 0
    /\ j' = 0
    /\ hasSwap' = FALSE

Abort(func) ==
    /\ pc' = "aborted"
    /\ err' = [kind |-> "IndexOutOfRange", func |-> func]

Init ==
    /\ \E light \in 1..MaxN :
         /\ before = disk_state(light)
         /\ built = light
    /\ pc = "idle"
    /\ after = Idle.after
    /\ numOfSwap = 0
    /\ n = 0
    /\ i = 0
    /\ j = 0
    /\ hasSwap = FALSE
    /\ altRes = NoResult
    /\ lawnRes = NoResult
    /\ ret = NoRet
    /\ err = NoErr
    /\ origin = "constructed"
    /\ passes = 0
    /\ quiet = FALSE

\* The indices a caller passes: every valid one and ExtraIdx beyond.
CallerIndex == 0..(total_count(before) - 1 + ExtraIdx)

\* The rows a caller can hold: a constructed row after any valid swaps.
RECURSIVE Arrangements(_, _)
Arrangements(lights, darks) ==
    IF lights = 0 /\ darks = 0 THEN {<<>>}
    ELSE (IF lights > 0
          THEN {<<DISK_LIGHT>> \o s : s \in Arrangements(lights - 1, darks)}
          ELSE {})
         \cup
         (IF darks > 0
          THEN {<<DISK_DARK>> \o s : s \in Arrangements(lights, darks - 1)}
          ELSE {})

RhsRows == UNION {Arrangements(m, m) : m \in 1..MaxRhs}

\* The caller calls before.swap(left_index).
CallSwap ==
    /\ pc = "idle"
    /\ UNCHANGED built
    /\ \E left_index \in CallerIndex :
         LET s == swap(before, left_index) IN
         /\ ret' = [NoRet EXCEPT !.op = "swap", !.index = left_index]
         /\ IF s.ok
            THEN /\ before' = s.colors
                 /\ origin' = "swapped"
                 /\ altRes' = NoResult
                 /\ lawnRes' = NoResult
                 /\ passes' = 0
                 /\ quiet' = FALSE
                 /\ UNCHANGED <<pc, err>>
            ELSE /\ Abort("caller")
                 /\ UNCHANGED <<before, origin, altRes, lawnRes, passes, quiet>>
    /\ UNCHANGED locals

\* The caller calls before.get(index).
CallGet ==
    /\ pc = "idle"
    /\ UNCHANGED built
    /\ \E index \in CallerIndex :
         LET g == get(before, index) IN
         /\ ret' = [NoRet EXCEPT !.op = "get", !.index = index, !.color = g.val]
         /\ IF g.ok THEN UNCHANGED <<pc, err>> ELSE Abort("caller")
    /\ UNCHANGED <<before, origin, altRes, lawnRes, passes, quiet>>
    /\ UNCHANGED locals

\* The caller evaluates before == rhs.
CallEquals ==
    /\ pc = "idle"
    /\ UNCHANGED built
    /\ \E rhs \in RhsRows : \E result \in operator_eq(before, rhs) :
         ret' = [NoRet EXCEPT !.op = "==", !.rhs = rhs, !.result = result]
    /\ UNCHANGED <<before, pc, err, origin, altRes, lawnRes, passes, quiet>>
    /\ UNCHANGED locals

\* The caller takes a result's after() as its row, to sort it again.
CallAfter ==
    /\ pc = "idle"
    /\ UNCHANGED built
    /\ \E which \in {"alternate", "lawnmower"} :
         LET res == IF which = "alternate" THEN altRes ELSE lawnRes IN
         /\ res.done
         /\ before' = res.after
         /\ origin' = IF is_initialized(before) THEN which ELSE "resorted"
    /\ altRes' = NoResult
    /\ lawnRes' = NoResult
    /\ passes' = 0
    /\ quiet' = FALSE
    /\ ret' = NoRet
    /\ UNCHANGED <<pc, err>>
    /\ UNCHANGED locals

----------------------------------------------------------------------------
\* sort_alternate

\* Entry: copy the row, compute n, return at once when n == 0.
AltCall ==
    /\ pc = "idle"
    /\ UNCHANGED built
    /\ ~altRes.done
    /\ LET nn == total_count(before) \div 2 IN
       IF nn = 0
       THEN /\ altRes' = sorted_disks(before, 0)
            /\ ResetLocals
            /\ UNCHANGED pc
       ELSE /\ after' = before
            /\ numOfSwap' = 0
            /\ n' = nn
            /\ i' = 0
            /\ j' = 0
            /\ hasSwap' = FALSE
            /\ pc' = "alt_outer"
            /\ UNCHANGED altRes
    /\ ret' = NoRet
    /\ UNCHANGED <<before, lawnRes, err, origin, passes, quiet>>

\* The outer loop test: start pass i, or return.
AltOuter ==
    /\ pc = "alt_outer"
    /\ UNCHANGED built
    /\ IF i < alt_passes(n)
       THEN /\ j' = alt_start(i)
            /\ pc' = "alt_inner"
            /\ UNCHANGED <<after, numOfSwap, n, i, hasSwap, altRes>>
       ELSE /\ altRes' = sorted_disks(after, numOfSwap)
            /\ pc' = "idle"
            /\ ResetLocals
    /\ UNCHANGED <<before, lawnRes, ret, err, origin, passes, quiet>>

\* One iteration of the inner loop of pass i, or its exit.
AltInner ==
    /\ pc = "alt_inner"
    /\ UNCHANGED built
    /\ IF j < alt_bound(n, i)
       THEN LET e == examine(after, j, DISK_DARK, j + 1, DISK_LIGHT, j) IN
            IF e.ok
            THEN /\ after' = e.colors
                 /\ numOfSwap' = IF e.swapped THEN numOfSwap + 1 ELSE numOfSwap
                 /\ j' = j + 2
                 /\ UNCHANGED <<pc, err, n, i, hasSwap>>
            ELSE /\ Abort("sort_alternate")
                 /\ UNCHANGED locals
       ELSE /\ i' = i + 1
            /\ pc' = "alt_outer"
            /\ UNCHANGED <<after, numOfSwap, n, j, hasSwap, err>>
    /\ UNCHANGED <<before, altRes, lawnRes, ret, origin, passes, quiet>>

----------------------------------------------------------------------------
\* sort_lawnmower

LawnCall ==
    /\ pc = "idle"
    /\ UNCHANGED built
    /\ ~lawnRes.done
    /\ after' = before
    /\ numOfSwap' = 0
    /\ n' = total_count(before) \div 2
    /\ i' = 0
    /\ j' = 0
    /\ hasSwap' = FALSE
    /\ pc' = "lawn_outer"
    /\ passes' = 0
    /\ quiet' = FALSE
    /\ ret' = NoRet
    /\ UNCHANGED <<before, altRes, lawnRes, err, origin>>

LawnReturn ==
    /\ lawnRes' = sorted_disks(after, numOfSwap)
    /\ pc' = "idle"
    /\ ResetLocals

\* The outer loop test: start a double-pass, or return.
LawnOuter ==
    /\ pc = "lawn_outer"
    /\ UNCHANGED built
    /\ IF i < lawn_passes(n)
       THEN /\ hasSwap' = FALSE
            /\ j' = 0
            /\ pc' = "lawn_fwd"
            /\ UNCHANGED <<after, numOfSwap, n, i, lawnRes>>
       ELSE LawnReturn
    /\ UNCHANGED <<before, altRes, ret, err, origin, passes, quiet>>

\* One iteration of the forward sweep, or its exit into the backward sweep.
LawnForward ==
    /\ pc = "lawn_fwd"
    /\ UNCHANGED built
    /\ IF j < lawn_fwd_bound(n)
       THEN LET e == examine(after, j, DISK_DARK, j + 1, DISK_LIGHT, j) IN
            IF e.ok
            THEN /\ after' = e.colors
                 /\ numOfSwap' = IF e.swapped THEN numOfSwap + 1 ELSE numOfSwap
                 /\ hasSwap' = (hasSwap \/ e.swapped)
                 /\ j' = j + 1
                 /\ UNCHANGED <<pc, err, n, i>>
            ELSE /\ Abort("sort_lawnmower")
                 /\ UNCHANGED locals
       ELSE /\ j' = lawn_bwd_start(n)
            /\ pc' = "lawn_bwd"
            /\ UNCHANGED <<after, numOfSwap, n, i, hasSwap, err>>
    /\ UNCHANGED <<before, altRes, lawnRes, ret, origin, passes, quiet>>

\* One iteration of the backward sweep, or the end of the double-pass:
\* break when no swap was made, else ++i.
LawnBackward ==
    /\ pc = "lawn_bwd"
    /\ UNCHANGED built
    /\ IF j > 0
       THEN /\ LET e == examine(after, j, DISK_LIGHT, j - 1, DISK_DARK, j - 1) IN
               IF e.ok
               THEN /\ after' = e.colors
                    /\ numOfSwap' = IF e.swapped THEN numOfSwap + 1 ELSE numOfSwap
                    /\ hasSwap' = (hasSwap \/ e.swapped)
                    /\ j' = j - 1
                    /\ UNCHANGED <<pc, err, n, i>>
               ELSE /\ Abort("sort_lawnmower")
                    /\ UNCHANGED locals
            /\ UNCHANGED <<lawnRes, passes, quiet>>
       ELSE /\ passes' = passes + 1
            /\ quiet' = ~hasSwap
            /\ IF ~hasSwap
               THEN LawnReturn
               ELSE /\ i' = i + 1
                    /\ pc' = "lawn_outer"
                    /\ UNCHANGED <<after, numOfSwap, n, j, hasSwap, lawnRes>>
            /\ UNCHANGED err
    /\ UNCHANGED <<before, altRes, ret, origin>>

----------------------------------------------------------------------------
Next ==
    \/ CallSwap
    \/ CallGet
    \/ CallEquals
    \/ CallAfter
    \/ AltCall
    \/ AltOuter
    \/ AltInner
    \/ LawnCall
    \/ LawnOuter
    \/ LawnForward
    \/ LawnBackward

Spec == Init /\ [][Next]_vars

TypeOK ==
    /\ pc \in {"idle", "aborted", "alt_outer", "alt_inner",
               "lawn_outer", "lawn_fwd", "lawn_bwd"}
    /\ Len(before) \in {2 * m : m \in 1..MaxN}
    /\ numOfSwap \in Nat
    /\ altRes.done \in BOOLEAN
    /\ lawnRes.done \in BOOLEAN

----------------------------------------------------------------------------
\* Vocabulary of the properties, independent of the code's predicates.

Half(colors) == Len(colors) \div 2

Count(colors, c) == Cardinality({k \in 1..Len(colors) : colors[k] = c})

Segregated(colors) ==
    /\ \A k \in 1..Half(colors) : colors[k] = DISK_LIGHT
    /\ \A k \in (Half(colors) + 1)..Len(colors) : colors[k] = DISK_DARK

Alternating(colors) ==
    \A k \in 1..Len(colors) :
        colors[k] = IF k % 2 = 1 THEN DISK_LIGHT ELSE DISK_DARK

\* Dark-before-Light pairs, adjacent or not.
Inversions(colors) ==
    Cardinality({p \in (1..Len(colors)) \X (1..Len(colors)) :
                    p[1] < p[2] /\ colors[p[1]] = DISK_DARK /\ colors[p[2]] = DISK_LIGHT})

CeilHalf(x) == (x + 1) \div 2

InSort == pc \in {"alt_outer", "alt_inner", "lawn_outer", "lawn_fwd", "lawn_bwd"}

ValidIdx(colors, idx) == 0 <= idx /\ idx < Len(colors)

----------------------------------------------------------------------------
\* C1: sort_alternate on the initialized row of any n >= 1 makes no more
\* than n + 1 passes and returns a row that is_sorted() accepts: the low
\* half all light, the high half all dark.
C1_AlternateSortsInitialized ==
    /\ pc = "alt_inner" => i <= n
    /\ pc = "alt_outer" => i <= n + 1
    /\ (altRes.done /\ Alternating(before)) =>
           /\ is_sorted(altRes.after)
           /\ Segregated(altRes.after)
           /\ Len(altRes.after) = Len(before)

C1_Witness ==
    /\ altRes.done
    /\ Alternating(before)
    /\ Len(before) = 2 * MaxN
    /\ altRes.after # before

\* C2: sort_lawnmower on the initialized row of any n >= 1 returns a row
\* that is_sorted() accepts; the cap on double-passes does not cut it short.
C2_LawnmowerSortsInitialized ==
    (lawnRes.done /\ Alternating(before)) =>
        /\ is_sorted(lawnRes.after)
        /\ Segregated(lawnRes.after)
        /\ Len(lawnRes.after) = Len(before)

\* The cap ended the sort: the last double-pass still swapped.
C2_Witness ==
    /\ lawnRes.done
    /\ Alternating(before)
    /\ Len(before) >= 6
    /\ passes >= 1
    /\ ~quiet

\* C3 as stated: on every row the caller can hold, the two algorithms
\* return equal rows.
C3_EqualOnEveryRow ==
    (altRes.done /\ lawnRes.done) => altRes.after = lawnRes.after

\* C3 amended: on the initialized row the two algorithms return equal rows.
C3_EqualOnInitialized ==
    (altRes.done /\ lawnRes.done /\ Alternating(before)) =>
        altRes.after = lawnRes.after

C3_Witness ==
    /\ altRes.done
    /\ lawnRes.done
    /\ Alternating(before)
    /\ Len(before) = 2 * MaxN
    /\ lawnRes.after # before

\* C4: on a sorted row both algorithms return swap count 0 and the row
\* itself; so sorting again the output either algorithm gave for an
\* initialized row makes no swap.
C4_Idempotent ==
    /\ (Segregated(before) /\ altRes.done) =>
           (altRes.swap_count = 0 /\ altRes.after = before)
    /\ (Segregated(before) /\ lawnRes.done) =>
           (lawnRes.swap_count = 0 /\ lawnRes.after = before)
    /\ (origin = "alternate" /\ altRes.done) =>
           (altRes.swap_count = 0 /\ altRes.after = before)
    /\ (origin = "lawnmower" /\ lawnRes.done) =>
           (lawnRes.swap_count = 0 /\ lawnRes.after = before)

\* Both algorithms have re-sorted what sort_alternate returned for an
\* initialized row of at least four disks.
C4_Witness ==
    /\ origin = "alternate"
    /\ Len(before) >= 4
    /\ Segregated(before)
    /\ altRes.done
    /\ lawnRes.done

\* C5: after any successful swaps the row built with n has length 2n,
\* n light and n dark disks, and light_count(), dark_count() and
\* total_count() / 2 report n. The same holds of a sort's working copy.
C5_MultisetInvariant ==
    /\ Len(before) = 2 * built
    /\ Count(before, DISK_LIGHT) = built
    /\ Count(before, DISK_DARK) = built
    /\ light_count(before) = Count(before, DISK_LIGHT)
    /\ dark_count(before) = Count(before, DISK_DARK)
    /\ total_count(before) \div 2 = built
    /\ InSort =>
           /\ Len(after) = 2 * built
           /\ Count(after, DISK_LIGHT) = built
           /\ Count(after, DISK_DARK) = built

\* Several swaps later the row is neither initialized nor sorted.
C5_Witness ==
    /\ origin = "swapped"
    /\ ret.op = "swap"
    /\ pc = "idle"
    /\ Len(before) >= 4
    /\ ~Alternating(before)
    /\ ~Segregated(before)

\* C6: a swap whose left or right index is not in [0, total_count()), and a
\* get at an index >= total_count(), fail with IndexOutOfRange and leave the
\* row as it was.
C6_InvalidIndexFails ==
    [][ ( \/ /\ ret'.op = "swap"
             /\ ~(ValidIdx(before, ret'.index) /\ ValidIdx(before, ret'.index + 1))
          \/ /\ ret'.op = "get"
             /\ ret'.index >= Len(before) )
        => ( /\ pc' = "aborted"
             /\ err'.kind = "IndexOutOfRange"
             /\ before' = before ) ]_vars

\* swap(3) on a row of length 4 has failed.
C6_Witness ==
    /\ pc = "aborted"
    /\ err.kind = "IndexOutOfRange"
    /\ ret.op = "swap"
    /\ ret.index = 3
    /\ Len(before) = 4

\* C7: operator== returns true exactly when the two rows have the same
\* length and the same colour at every index.
C7_EqualsIsRowEquality ==
    ret.op = "==" =>
        (ret.result <=> ( /\ Len(before) = Len(ret.rhs)
                          /\ \A k \in 1..Len(before) : before[k] = ret.rhs[k] ))

\* C8: sort_lawnmower never makes more than ceil(n/2) double-passes and
\* returns only after a double-pass without a swap or after ceil(n/2)
\* double-passes.
C8_LawnmowerPassCount ==
    /\ passes <= CeilHalf(Half(before))
    /\ lawnRes.done => (quiet \/ passes = CeilHalf(Half(before)))

\* C9: on the initialized row both algorithms return swap count
\* n(n-1)/2; every swap removes one Dark-before-Light inversion; for n = 2
\* the returned row is L L D D with swap count 1.
C9_SwapCount ==
    /\ InSort => numOfSwap + Inversions(after) = Inversions(before)
    /\ (altRes.done /\ Alternating(before)) =>
           altRes.swap_count = (built * (built - 1)) \div 2
    /\ (lawnRes.done /\ Alternating(before)) =>
           lawnRes.swap_count = (built * (built - 1)) \div 2
    /\ (altRes.done /\ before = <<"L", "D", "L", "D">>) =>
           (altRes.after = <<"L", "L", "D", "D">> /\ altRes.swap_count = 1)
    /\ (lawnRes.done /\ before = <<"L", "D", "L", "D">>) =>
           (lawnRes.after = <<"L", "L", "D", "D">> /\ lawnRes.swap_count = 1)

C9_Witness ==
    /\ altRes.done
    /\ lawnRes.done
    /\ Alternating(before)
    /\ Len(before) = 2 * MaxN
    /\ altRes.swap_count = lawnRes.swap_count
    /\ altRes.swap_count > 0

\* C10: inside either algorithm every index handed to get and swap is in
\* [0, 2n), so no assertion fires there and a started sort is never aborted.
C10_SortIndicesValid ==
    /\ err.func \notin {"sort_alternate", "sort_lawnmower"}
    /\ (pc = "alt_inner" /\ j < (IF i % 2 = 0 THEN 2 * n ELSE 2 * n - 2)) =>
           (ValidIdx(after, j) /\ ValidIdx(after, j + 1))
    /\ (pc = "lawn_fwd" /\ j < 2 * n - 1) =>
           (ValidIdx(after, j) /\ ValidIdx(after, j + 1))
    /\ (pc = "lawn_bwd" /\ j > 0) =>
           (ValidIdx(after, j) /\ ValidIdx(after, j - 1))

\* The backward sweep is at its last pair, on a row sort_alternate has
\* already run through, odd passes included.
C10_Witness ==
    /\ pc = "lawn_bwd"
    /\ j = 1
    /\ altRes.done
    /\ ~Alternating(before)
====
